---- MODULE Spec2Model ----
(***************************************************************************)
(* RetryStorm: static analyzer of a microservice call topology.            *)
(*                                                                         *)
(* The module models src/retrystorm.py (parse_duration, load_topology, the *)
(* three detectors and analyze) and src/cli.py (main).  The                *)
(* specifications share the definitions:                                   *)
(*   SpecParse  one call of parse_duration on a bounded argument;          *)
(*   Spec       one run of the command line: load, analyze, exit;          *)
(*   SpecAmp, SpecInv, SpecGap                                             *)
(*              one call of one detector on a loaded topology;             *)
(*   SpecWalk   detect_retry_amplification step by step, with the call     *)
(*              stack of the nested function walk made explicit, and       *)
(*              FairSpecWalk, the same run when it is not stopped.         *)
(***************************************************************************)
EXTENDS Integers, Sequences, FiniteSets, TLC

VARIABLES
    duration,      \* parse_duration: the argument s
    parsed,        \* parse_duration: the value returned or the error raised
    config,        \* the topology document: service name -> raw settings
    order,         \* iteration order of the services mapping (dict order)
    services,      \* the loaded topology: service name -> ServiceConfig
    threshold,     \* args.threshold / the threshold parameter
    strict,        \* args.strict
    findings,      \* the findings list
    detectors_run, \* the detectors called so far, in call order
    exit_code,     \* the status handed to sys.exit
    stack,         \* the active calls of walk, innermost last
    start,         \* position of "for name in services" (retrystorm.py:77)
    pc             \* control position

vars == <<duration, parsed, config, order, services, threshold, strict,
          findings, detectors_run, exit_code, stack, start, pc>>

-----------------------------------------------------------------------------
(* Bounds of the model.                                                    *)

\* longest duration string tried on parse_duration
MaxStrLen == 4
\* most calls entries a topology holds in total, over all its services
MaxEdges == 3
\* most calls entries a document given to the command line holds in total
MaxCliEdges == 2

\* characters of the duration strings tried on parse_duration
Chars == {"1", "2", " ", "m", "s"}
\* numeric (int) arguments tried on parse_duration
Numbers == {0, 500}

-----------------------------------------------------------------------------
(* Helpers.                                                                *)

Range(s) == {s[i] : i \in DOMAIN s}

Last(s) == s[Len(s)]

Front(s) == SubSeq(s, 1, Len(s) - 1)

\* no element occurs twice in the sequence p
IsSimple(p) == \A i, j \in DOMAIN p : i # j => p[i] # p[j]

\* number of positions of the sequence s that hold x
Count(s, x) == Cardinality({i \in DOMAIN s : s[i] = x})

RECURSIVE SeqsUpTo(_, _)
\* all sequences over S of length at most n
SeqsUpTo(S, n) ==
    IF n = 0 THEN {<<>>}
    ELSE LET shorter == SeqsUpTo(S, n - 1)
         IN shorter \cup {Append(s, x) : s \in shorter, x \in S}

-----------------------------------------------------------------------------
(* parse_duration (retrystorm.py:23-34).  A string is a sequence of        *)
(* one-character strings; a number is an integer count of milliseconds.    *)

NumArg(n) == [kind |-> "num", num |-> n, str |-> <<>>]
StrArg(s) == [kind |-> "str", num |-> 0, str |-> s]

Ms(n) == [ok |-> TRUE, ms |-> n]
ValueError == [ok |-> FALSE, ms |-> 0]

Digits == {"0", "1", "2", "3", "4", "5", "6", "7", "8", "9"}

DigitValue(c) ==
    CASE c = "0" -> 0 [] c = "1" -> 1 [] c = "2" -> 2 [] c = "3" -> 3
      [] c = "4" -> 4 [] c = "5" -> 5 [] c = "6" -> 6 [] c = "7" -> 7
      [] c = "8" -> 8 [] c = "9" -> 9

RECURSIVE DecimalValue(_)
DecimalValue(s) ==
    IF s = <<>> THEN 0
    ELSE 10 * DecimalValue(Front(s)) + DigitValue(Last(s))

RECURSIVE LStrip(_)
LStrip(s) == IF s # <<>> /\ Head(s) = " " THEN LStrip(Tail(s)) ELSE s

RECURSIVE RStrip(_)
RStrip(s) == IF s # <<>> /\ Last(s) = " " THEN RStrip(Front(s)) ELSE s

\* str.strip()
Strip(s) == RStrip(LStrip(s))

\* str.endswith(suffix)
EndsWith(s, suffix) ==
    /\ Len(s) >= Len(suffix)
    /\ SubSeq(s, Len(s) - Len(suffix) + 1, Len(s)) = suffix

\* float(s) of a string: surrounding whitespace is ignored, and what is left
\* must be a numeral (here: a non-empty run of decimal digits)
Float(s) ==
    LET t == Strip(s)
    IN IF t # <<>> /\ Range(t) \subseteq Digits THEN Ms(DecimalValue(t))
       ELSE ValueError

\* float(...) * factor
Scaled(v, factor) == IF v.ok THEN Ms(v.ms * factor) ELSE ValueError

\* s[:-n]
DropLast(s, n) == SubSeq(s, 1, Len(s) - n)

\* the suffix "s" tried before "ms"
parse_duration_seconds_first(arg) ==
    IF arg.kind = "num" THEN Ms(arg.num)
    ELSE LET s == Strip(arg.str)
         IN IF EndsWith(s, <<"s">>) THEN Scaled(Float(DropLast(s, 1)), 1000)
            ELSE IF EndsWith(s, <<"m", "s">>) THEN Float(DropLast(s, 2))
            ELSE IF EndsWith(s, <<"m">>) THEN Scaled(Float(DropLast(s, 1)), 60000)
            ELSE Float(s)

parse_duration(arg) ==
    IF arg.kind = "num" THEN Ms(arg.num)
    ELSE LET s == Strip(arg.str)
         IN IF EndsWith(s, <<"m", "s">>) THEN Float(DropLast(s, 2))
            ELSE IF EndsWith(s, <<"s">>) THEN Scaled(Float(DropLast(s, 1)), 1000)
            ELSE IF EndsWith(s, <<"m">>) THEN Scaled(Float(DropLast(s, 1)), 60000)
            ELSE Float(s)

-----------------------------------------------------------------------------
(* The data model (retrystorm.py:6-20).  The message of a Finding is kept  *)
(* as the values its f-string is formatted from: the numbers, in order,    *)
(* and the service names, in order.                                        *)

ServiceConfig(name, timeout_ms, max_retries, has_circuit_breaker, calls) ==
    [name |-> name, timeout_ms |-> timeout_ms, max_retries |-> max_retries,
     has_circuit_breaker |-> has_circuit_breaker, calls |-> calls]

Finding(rule, severity, message, path) ==
    [rule |-> rule, severity |-> severity, message |-> message, path |-> path]

Message(nums, names) == [nums |-> nums, names |-> names]

\* a lookup that makes up a service for a name the topology does not declare
Lookup_with_default(svcs, name) ==
    IF name \in DOMAIN svcs THEN <<svcs[name]>>
    ELSE <<[name |-> name, timeout_ms |-> 30000, max_retries |-> 2,
            has_circuit_breaker |-> FALSE, calls |-> <<>>]>>

\* services.get(name): <<the service>>, or <<>> for None
Lookup(svcs, name) == IF name \in DOMAIN svcs THEN <<svcs[name]>> ELSE <<>>

-----------------------------------------------------------------------------
(* detect_retry_amplification (retrystorm.py:58-79).                       *)

\* a factor equal to the threshold reported too
Reports_at_threshold(path, current, thr) == Len(path) > 1 /\ current >= thr

\* a path reported only from its second edge on
Reports_after_two_edges(path, current, thr) == Len(path) > 2 /\ current > thr

\* retrystorm.py:67, the condition under which walk reports the path
Reports(path, current, thr) == Len(path) > 1 /\ current > thr

\* only a direct self-call is refused
NotOnPath_last_only(callee, path) == callee # Last(path)

\* retrystorm.py:74, the guard on the recursive call
NotOnPath(callee, path) == callee \notin Range(path)

\* retrystorm.py:68-72
AmplificationFinding(current, path) ==
    Finding("retry-amplification", "error", Message(<<current>>, path), path)

RECURSIVE walk(_, _, _, _, _)
RECURSIVE walk_calls(_, _, _, _, _, _)

\* the findings one call walk(name, path, product) appends, in order
walk(svcs, thr, name, path, product) ==
    LET svc == Lookup(svcs, name)
    IN IF svc = <<>> THEN <<>>
       ELSE LET current == product * svc[1].max_retries
                here == IF Reports(path, current, thr)
                        THEN <<AmplificationFinding(current, path)>>
                        ELSE <<>>
            IN here \o walk_calls(svcs, thr, svc[1].calls, path, current, 1)

\* the loop "for callee in svc.calls" from its k-th entry on
walk_calls(svcs, thr, calls, path, current, k) ==
    IF k > Len(calls) THEN <<>>
    ELSE LET callee == calls[k]
             below == IF NotOnPath(callee, path)
                      THEN walk(svcs, thr, callee, Append(path, callee), current)
                      ELSE <<>>
         IN below \o walk_calls(svcs, thr, calls, path, current, k + 1)

RECURSIVE walk_from(_, _, _, _)
\* the loop "for name in services" from its i-th key on
walk_from(svcs, ord, thr, i) ==
    IF i > Len(ord) THEN <<>>
    ELSE walk(svcs, thr, ord[i], <<ord[i]>>, 1) \o walk_from(svcs, ord, thr, i + 1)

detect_retry_amplification(svcs, ord, thr) == walk_from(svcs, ord, thr, 1)

-----------------------------------------------------------------------------
(* detect_timeout_inversion (retrystorm.py:82-94).                         *)

\* equal timeouts flagged too
Inverted_or_equal(svc, callee) == svc.timeout_ms <= callee.timeout_ms

\* retrystorm.py:88, the comparison of the two timeouts
Inverted(svc, callee) == svc.timeout_ms < callee.timeout_ms

InversionFinding(svc, callee) ==
    Finding("timeout-inversion", "warning",
            Message(<<svc.timeout_ms, callee.timeout_ms>>, <<svc.name, callee.name>>),
            <<svc.name, callee.name>>)

RECURSIVE inversion_calls(_, _, _)
\* the loop "for callee_name in svc.calls" from its k-th entry on
inversion_calls(svcs, svc, k) ==
    IF k > Len(svc.calls) THEN <<>>
    ELSE LET callee == Lookup(svcs, svc.calls[k])
             here == IF callee # <<>> /\ Inverted(svc, callee[1])
                     THEN <<InversionFinding(svc, callee[1])>>
                     ELSE <<>>
         IN here \o inversion_calls(svcs, svc, k + 1)

RECURSIVE inversion_from(_, _, _)
inversion_from(svcs, ord, i) ==
    IF i > Len(ord) THEN <<>>
    ELSE inversion_calls(svcs, svcs[ord[i]], 1) \o inversion_from(svcs, ord, i + 1)

detect_timeout_inversion(svcs, ord) == inversion_from(svcs, ord, 1)

-----------------------------------------------------------------------------
(* detect_circuit_breaker_gaps (retrystorm.py:97-108).                     *)

\* the breaker flag not consulted
HasGap_ignoring_breaker(svc) == svc.calls # <<>>

\* retrystorm.py:101
HasGap(svc) == svc.calls # <<>> /\ ~svc.has_circuit_breaker

GapFinding(svc) ==
    Finding("circuit-breaker-gap", "warning",
            Message(<<>>, <<svc.name>> \o svc.calls), <<svc.name>>)

RECURSIVE gaps_from(_, _, _)
gaps_from(svcs, ord, i) ==
    IF i > Len(ord) THEN <<>>
    ELSE (IF HasGap(svcs[ord[i]]) THEN <<GapFinding(svcs[ord[i]])>> ELSE <<>>)
         \o gaps_from(svcs, ord, i + 1)

detect_circuit_breaker_gaps(svcs, ord) == gaps_from(svcs, ord, 1)

-----------------------------------------------------------------------------
(* analyze (retrystorm.py:111-115).                                        *)

\* the circuit-breaker detector run before the timeout detector
analyze_gaps_first(svcs, ord, thr) ==
    detect_retry_amplification(svcs, ord, thr)
        \o detect_circuit_breaker_gaps(svcs, ord)
        \o detect_timeout_inversion(svcs, ord)

analyze(svcs, ord, thr) ==
    detect_retry_amplification(svcs, ord, thr)
        \o detect_timeout_inversion(svcs, ord)
        \o detect_circuit_breaker_gaps(svcs, ord)

\* the detectors analyze calls, in call order
AnalyzeCalls ==
    <<"detect_retry_amplification", "detect_timeout_inversion",
      "detect_circuit_breaker_gaps">>

-----------------------------------------------------------------------------
(* load_topology (retrystorm.py:37-55).  A service's raw settings are      *)
(*   timeout           <<>> when the key is absent, else <<its value>>     *)
(*   max_attempts      the retry.max_attempts value                        *)
(*   circuit_breaker   whether the key holds a truthy value                *)
(*   calls             the calls list                                      *)

RawService(timeout, max_attempts, circuit_breaker, calls) ==
    [timeout |-> timeout, max_attempts |-> max_attempts,
     circuit_breaker |-> circuit_breaker, calls |-> calls]

\* cfg.get("timeout", "30s")
DefaultTimeout == StrArg(<<"3", "0", "s">>)

TimeoutOf(cfg) == IF cfg.timeout = <<>> THEN DefaultTimeout ELSE cfg.timeout[1]

Max(a, b) == IF a >= b THEN a ELSE b

\* the ServiceConfig built at retrystorm.py:48-54
LoadService(name, cfg) ==
    ServiceConfig(name, parse_duration(TimeoutOf(cfg)).ms, Max(cfg.max_attempts, 1),
                  cfg.circuit_breaker, cfg.calls)

\* whether load_topology raises: parse_duration raises on some service's timeout
LoadRaises(doc) == \E n \in DOMAIN doc : ~parse_duration(TimeoutOf(doc[n])).ok

load_topology(doc) == [n \in DOMAIN doc |-> LoadService(n, doc[n])]


-----------------------------------------------------------------------------
(* SpecParse: parse_duration applied to one bounded argument.              *)

NotParsed == [ok |-> FALSE, ms |-> -1]
NoArg == StrArg(<<>>)

DurationArgs ==
    {NumArg(n) : n \in Numbers} \cup {StrArg(s) : s \in SeqsUpTo(Chars, MaxStrLen)}

Idle ==
    /\ config = <<>>
    /\ order = <<>>
    /\ services = <<>>
    /\ threshold = 0
    /\ strict = FALSE
    /\ findings = <<>>
    /\ detectors_run = <<>>
    /\ exit_code = -1
    /\ stack = <<>>
    /\ start = 0

InitParse ==
    /\ duration \in DurationArgs
    /\ parsed = NotParsed
    /\ pc = "parse"
    /\ Idle

ParseDuration ==
    /\ pc = "parse"
    /\ parsed' = parse_duration(duration)
    /\ pc' = "parsed"
    /\ UNCHANGED <<duration, config, order, services, threshold, strict,
                   findings, detectors_run, exit_code, stack, start>>

NextParse == ParseDuration

SpecParse == InitParse /\ [][NextParse]_vars

-----------------------------------------------------------------------------
(* Topologies tried.                                                       *)

\* the services of the topologies given to the detectors, in dict order
DetectNames == <<"a", "b", "c">>
\* the services of the documents given to the command line, in dict order
CliNames == <<"a", "b">>
\* a name no topology declares: a dangling calls entry
Ghost == "x"

\* the calls list of service n when the calls entries are written in the
\* order of edges, a sequence of <<caller, callee>> pairs
CallsOf(edges, n) ==
    LET mine == SelectSeq(edges, LAMBDA e : e[1] = n)
    IN [i \in 1..Len(mine) |-> mine[i][2]]

\* every assignment of calls lists to the services of names that holds at
\* most maxEdges entries in total, each naming a service or Ghost
CallLists(names, maxEdges) ==
    LET pairs == Range(names) \X (Range(names) \cup {Ghost})
    IN {[n \in Range(names) |-> CallsOf(edges, n)] :
            edges \in UNION {[1..k -> pairs] : k \in 0..maxEdges}}

-----------------------------------------------------------------------------
(* Spec: one run of the command line, main (cli.py:9-43).                  *)

\* timeout settings tried: absent, "2s", and "s", which does not parse
RawTimeouts == {<<>>, <<StrArg(<<"2", "s">>)>>, <<StrArg(<<"s">>)>>}
\* retry.max_attempts settings tried
RawAttempts == {0, 2}
\* --threshold values tried
CliThresholds == {1, 2}

\* --strict not consulted
ExitStatus_errors_only(found, strictFlag) ==
    IF \E i \in DOMAIN found : found[i].severity = "error" THEN 1 ELSE 0

\* the status main exits with after analyze (cli.py:42-43)
ExitStatus(found, strictFlag) ==
    LET has_errors == \E i \in DOMAIN found : found[i].severity = "error"
    IN IF has_errors \/ (strictFlag /\ found # <<>>) THEN 1 ELSE 0

Init ==
    /\ duration = NoArg
    /\ parsed = NotParsed
    /\ order = CliNames
    /\ \E calls \in CallLists(CliNames, MaxCliEdges),
          timeouts \in [Range(CliNames) -> RawTimeouts],
          attempts \in [Range(CliNames) -> RawAttempts],
          breakers \in [Range(CliNames) -> BOOLEAN] :
            config = [n \in Range(CliNames) |->
                        RawService(timeouts[n], attempts[n], breakers[n], calls[n])]
    /\ threshold \in CliThresholds
    /\ strict \in BOOLEAN
    /\ services = <<>>
    /\ findings = <<>>
    /\ detectors_run = <<>>
    /\ exit_code = -1
    /\ stack = <<>>
    /\ start = 0
    /\ pc = "load"

\* cli.py:22-23, load_topology returns
LoadOk ==
    /\ pc = "load"
    /\ ~LoadRaises(config)
    /\ services' = load_topology(config)
    /\ pc' = "analyze"
    /\ UNCHANGED <<duration, parsed, config, order, threshold, strict, findings,
                   detectors_run, exit_code, stack, start>>

\* cli.py:24-26, load_topology raises: sys.exit(2)
LoadError ==
    /\ pc = "load"
    /\ LoadRaises(config)
    /\ exit_code' = 2
    /\ pc' = "exited"
    /\ UNCHANGED <<duration, parsed, config, order, services, threshold, strict,
                   findings, detectors_run, stack, start>>

\* cli.py:27
Analyze ==
    /\ pc = "analyze"
    /\ findings' = analyze(services, order, threshold)
    /\ detectors_run' = detectors_run \o AnalyzeCalls
    /\ pc' = "report"
    /\ UNCHANGED <<duration, parsed, config, order, services, threshold, strict,
                   exit_code, stack, start>>

\* cli.py:28-43: the findings are printed, unchanged, and main exits
Exit ==
    /\ pc = "report"
    /\ exit_code' = ExitStatus(findings, strict)
    /\ pc' = "exited"
    /\ UNCHANGED <<duration, parsed, config, order, services, threshold, strict,
                   findings, detectors_run, stack, start>>

Next == LoadOk \/ LoadError \/ Analyze \/ Exit

Spec == Init /\ [][Next]_vars

-----------------------------------------------------------------------------
(* SpecAmp, SpecInv, SpecGap: one call of one detector on a loaded         *)
(* topology of the services DetectNames, as the tests call them.           *)

\* max_retries values tried
RetryValues == {1, 2}
\* timeout_ms values tried
TimeoutValues == {1000, 2000, 3000}
\* thresholds tried on detect_retry_amplification
Thresholds == {0, 1, 2, 4}

\* what load_topology gives a service that declares no timeout (30s), no
\* retry and no circuit_breaker
LoadedDefault == LoadService("", RawService(<<>>, 1, FALSE, <<>>))

\* the start of a detector call on every topology of DetectNames whose
\* retries, timeouts and breakers are drawn from the given sets
InitDetect(retrySet, timeoutSet, breakerSet, thresholdSet, at) ==
    /\ duration = NoArg
    /\ parsed = NotParsed
    /\ config = <<>>
    /\ order = DetectNames
    /\ \E calls \in CallLists(DetectNames, MaxEdges),
          retries \in [Range(DetectNames) -> retrySet],
          timeouts \in [Range(DetectNames) -> timeoutSet],
          breakers \in [Range(DetectNames) -> breakerSet] :
            services = [n \in Range(DetectNames) |->
                          ServiceConfig(n, timeouts[n], retries[n], breakers[n], calls[n])]
    /\ threshold \in thresholdSet
    /\ strict = FALSE
    /\ findings = <<>>
    /\ detectors_run = <<>>
    /\ exit_code = -1
    /\ stack = <<>>
    /\ start = 1
    /\ pc = at

InitAmp ==
    InitDetect(RetryValues, {LoadedDefault.timeout_ms},
               {LoadedDefault.has_circuit_breaker}, Thresholds, "amp")

InitInv ==
    InitDetect({LoadedDefault.max_retries}, TimeoutValues,
               {LoadedDefault.has_circuit_breaker}, {0}, "inv")

InitGap ==
    InitDetect({LoadedDefault.max_retries}, {LoadedDefault.timeout_ms},
               BOOLEAN, {0}, "gap")

\* findings = detect_retry_amplification(services, threshold)
DetectRetryAmplification ==
    /\ pc = "amp"
    /\ findings' = detect_retry_amplification(services, order, threshold)
    /\ detectors_run' = Append(detectors_run, "detect_retry_amplification")
    /\ pc' = "done"
    /\ UNCHANGED <<duration, parsed, config, order, services, threshold, strict,
                   exit_code, stack, start>>

\* findings = detect_timeout_inversion(services)
DetectTimeoutInversion ==
    /\ pc = "inv"
    /\ findings' = detect_timeout_inversion(services, order)
    /\ detectors_run' = Append(detectors_run, "detect_timeout_inversion")
    /\ pc' = "done"
    /\ UNCHANGED <<duration, parsed, config, order, services, threshold, strict,
                   exit_code, stack, start>>

\* findings = detect_circuit_breaker_gaps(services)
DetectCircuitBreakerGaps ==
    /\ pc = "gap"
    /\ findings' = detect_circuit_breaker_gaps(services, order)
    /\ detectors_run' = Append(detectors_run, "detect_circuit_breaker_gaps")
    /\ pc' = "done"
    /\ UNCHANGED <<duration, parsed, config, order, services, threshold, strict,
                   exit_code, stack, start>>

NextAmp == DetectRetryAmplification
NextInv == DetectTimeoutInversion
NextGap == DetectCircuitBreakerGaps

SpecAmp == InitAmp /\ [][NextAmp]_vars
SpecInv == InitInv /\ [][NextInv]_vars
SpecGap == InitGap /\ [][NextGap]_vars

-----------------------------------------------------------------------------
(* SpecWalk: detect_retry_amplification step by step.  stack holds one     *)
(* frame per active call of walk: its arguments, the local current, the    *)
(* position k of the loop over svc.calls, and where the call stands        *)
(* ("enter": before line 63, "loop": at line 73).                          *)

Frame(name, path, product) ==
    [name |-> name, path |-> path, product |-> product, current |-> 0, k |-> 0,
     at |-> "enter"]

Top == stack[Len(stack)]

\* the topology's threshold in SpecWalk
WalkThresholds == {2}

InitWalk ==
    InitDetect(RetryValues, {LoadedDefault.timeout_ms},
               {LoadedDefault.has_circuit_breaker}, WalkThresholds, "walk")

\* retrystorm.py:77-78, the next start service: walk(name, [name], 1)
WalkStart ==
    /\ pc = "walk"
    /\ stack = <<>>
    /\ start <= Len(order)
    /\ stack' = <<Frame(order[start], <<order[start]>>, 1)>>
    /\ start' = start + 1
    /\ UNCHANGED <<duration, parsed, config, order, services, threshold, strict,
                   findings, detectors_run, exit_code, pc>>

\* retrystorm.py:63-65, the name is no service: return
WalkMissing ==
    /\ pc = "walk"
    /\ stack # <<>>
    /\ Top.at = "enter"
    /\ Lookup(services, Top.name) = <<>>
    /\ stack' = Front(stack)
    /\ UNCHANGED <<duration, parsed, config, order, services, threshold, strict,
                   findings, detectors_run, exit_code, start, pc>>

\* retrystorm.py:63-72, the name is a service: current, and the finding
WalkVisit ==
    /\ pc = "walk"
    /\ stack # <<>>
    /\ Top.at = "enter"
    /\ Lookup(services, Top.name) # <<>>
    /\ LET svc == Lookup(services, Top.name)[1]
           current == Top.product * svc.max_retries
       IN /\ findings' = IF Reports(Top.path, current, threshold)
                         THEN Append(findings, AmplificationFinding(current, Top.path))
                         ELSE findings
          /\ stack' = [stack EXCEPT ![Len(stack)] =
                          [@ EXCEPT !.current = current, !.k = 1, !.at = "loop"]]
    /\ UNCHANGED <<duration, parsed, config, order, services, threshold, strict,
                   detectors_run, exit_code, start, pc>>

\* retrystorm.py:73-75, a callee not on the path: the nested call
WalkCall ==
    /\ pc = "walk"
    /\ stack # <<>>
    /\ Top.at = "loop"
    /\ LET calls == services[Top.name].calls
       IN /\ Top.k <= Len(calls)
          /\ NotOnPath(calls[Top.k], Top.path)
          /\ stack' = Append([stack EXCEPT ![Len(stack)] = [@ EXCEPT !.k = @ + 1]],
                             Frame(calls[Top.k], Append(Top.path, calls[Top.k]),
                                   Top.current))
    /\ UNCHANGED <<duration, parsed, config, order, services, threshold, strict,
                   findings, detectors_run, exit_code, start, pc>>

\* retrystorm.py:73-74, a callee already on the path: next entry
WalkSkip ==
    /\ pc = "walk"
    /\ stack # <<>>
    /\ Top.at = "loop"
    /\ LET calls == services[Top.name].calls
       IN /\ Top.k <= Len(calls)
          /\ ~NotOnPath(calls[Top.k], Top.path)
          /\ stack' = [stack EXCEPT ![Len(stack)] = [@ EXCEPT !.k = @ + 1]]
    /\ UNCHANGED <<duration, parsed, config, order, services, threshold, strict,
                   findings, detectors_run, exit_code, start, pc>>

\* retrystorm.py:73, the loop over svc.calls is over: walk returns
WalkReturn ==
    /\ pc = "walk"
    /\ stack # <<>>
    /\ Top.at = "loop"
    /\ Top.k > Len(services[Top.name].calls)
    /\ stack' = Front(stack)
    /\ UNCHANGED <<duration, parsed, config, order, services, threshold, strict,
                   findings, detectors_run, exit_code, start, pc>>

\* retrystorm.py:79, every start service is done: return findings
WalkDone ==
    /\ pc = "walk"
    /\ stack = <<>>
    /\ start > Len(order)
    /\ pc' = "done"
    /\ UNCHANGED <<duration, parsed, config, order, services, threshold, strict,
                   findings, detectors_run, exit_code, stack, start>>

NextWalk ==
    \/ WalkStart
    \/ WalkMissing
    \/ WalkVisit
    \/ WalkCall
    \/ WalkSkip
    \/ WalkReturn
    \/ WalkDone

SpecWalk == InitWalk /\ [][NextWalk]_vars

\* detect_retry_amplification terminates unless it is stopped
FairSpecWalk == SpecWalk /\ WF_vars(NextWalk)

\* the step-by-step run returns what detect_retry_amplification computes
WalkAgrees ==
    pc = "done" => findings = detect_retry_amplification(services, order, threshold)

-----------------------------------------------------------------------------
(* Properties of parse_duration, under SpecParse.                          *)

\* the numerals the strings tried can hold
Numerals == {d \in SeqsUpTo(Chars \cap Digits, MaxStrLen + 1) : d # <<>>}

\* C8: parse_duration returns a numeric argument unchanged, and for a string
\* whose trimmed text is a numeral n followed by "ms" it returns n, followed
\* by "s" n*1000, followed by "m" n*60000, and for a bare numeral n; a text
\* ending in "ms" is never read as seconds (scaled by 1000).
C8_ParseDuration ==
    pc = "parsed" =>
        /\ duration.kind = "num" => parsed = Ms(duration.num)
        /\ duration.kind = "str" =>
            LET text == Strip(duration.str)
            IN /\ \A d \in Numerals :
                    /\ text = d \o <<"m", "s">> => parsed = Ms(DecimalValue(d))
                    /\ text = d \o <<"s">> => parsed = Ms(1000 * DecimalValue(d))
                    /\ text = d \o <<"m">> => parsed = Ms(60000 * DecimalValue(d))
                    /\ text = d => parsed = Ms(DecimalValue(d))
               /\ EndsWith(text, <<"m", "s">>) /\ parsed.ok =>
                    parsed.ms = DecimalValue(Strip(DropLast(text, 2)))

\* " 12ms" gives 12
C8_Witness ==
    /\ pc = "parsed"
    /\ duration = StrArg(<<"1", "2", "m", "s">>)
    /\ parsed = Ms(12)

-----------------------------------------------------------------------------
(* Properties of detect_retry_amplification, under SpecAmp.                *)

RECURSIVE RetryProduct(_, _)
\* the product of max_retries over the services of path p
RetryProduct(svcs, p) ==
    IF p = <<>> THEN 1 ELSE svcs[Last(p)].max_retries * RetryProduct(svcs, Front(p))

\* every sequence of distinct names, declared or not, up to one longer than
\* the number of services
CandidatePaths ==
    {p \in SeqsUpTo(Range(DetectNames) \cup {Ghost}, Len(DetectNames) + 1) : IsSimple(p)}

\* p is a simple path of at least 2 services of the topology along calls
IsCallPath(svcs, p) ==
    /\ Len(p) >= 2
    /\ \A i \in DOMAIN p : p[i] \in DOMAIN svcs
    /\ IsSimple(p)
    /\ \A i \in 1..(Len(p) - 1) : p[i + 1] \in Range(svcs[p[i]].calls)

\* the paths the claim says are reported
AmplifiedPaths(svcs, thr) ==
    {p \in CandidatePaths : IsCallPath(svcs, p) /\ RetryProduct(svcs, p) > thr}

\* C1: the set of paths detect_retry_amplification reports is exactly the set
\* of simple call paths of at least 2 declared services whose product of
\* max_retries is strictly greater than the threshold; each finding has rule
\* retry-amplification, severity error, and that product as its factor.
C1_AmplificationPaths ==
    pc = "done" =>
        /\ {findings[i].path : i \in DOMAIN findings} = AmplifiedPaths(services, threshold)
        /\ \A i \in DOMAIN findings :
            /\ findings[i].rule = "retry-amplification"
            /\ findings[i].severity = "error"
            /\ findings[i].message.nums = <<RetryProduct(services, findings[i].path)>>
            /\ findings[i].message.names = findings[i].path

\* a path of 3 services is reported while a call path whose product equals
\* the threshold is not
C1_Witness ==
    /\ pc = "done"
    /\ \E i \in DOMAIN findings : Len(findings[i].path) = 3
    /\ \E p \in CandidatePaths :
        /\ IsCallPath(services, p)
        /\ RetryProduct(services, p) = threshold
        /\ \A i \in DOMAIN findings : findings[i].path # p

\* how often p is the path of a finding
TimesReported(found, p) == Cardinality({i \in DOMAIN found : found[i].path = p})

RECURSIVE EdgeChoices(_, _)
\* the number of ways to pick, for each step of p, one calls entry that
\* names the next service
EdgeChoices(svcs, p) ==
    IF Len(p) < 2 THEN 1
    ELSE Count(svcs[p[Len(p) - 1]].calls, Last(p)) * EdgeChoices(svcs, Front(p))

NoRepeatedCalls(svcs) ==
    \A n \in DOMAIN svcs : \A i, j \in DOMAIN svcs[n].calls :
        i # j => svcs[n].calls[i] # svcs[n].calls[j]

\* C9 as stated: every simple path whose factor exceeds the threshold is the
\* path of exactly one finding.
C9_Original ==
    pc = "done" =>
        \A p \in AmplifiedPaths(services, threshold) : TimesReported(findings, p) = 1

\* C9, amended: a simple path whose factor exceeds the threshold is reported
\* once for each way of choosing one calls entry per step of the path (the
\* product of the numbers of times each callee is listed by its caller), so
\* exactly once when no calls list names a service twice.
C9_ReportedPerEdgeChoice ==
    pc = "done" =>
        LET once == NoRepeatedCalls(services)
        IN \A p \in AmplifiedPaths(services, threshold) :
            /\ TimesReported(findings, p) = EdgeChoices(services, p)
            /\ once => TimesReported(findings, p) = 1

\* one path is reported twice (its callee is listed twice) and another once
C9_Witness ==
    /\ pc = "done"
    /\ \E p, q \in AmplifiedPaths(services, threshold) :
        /\ TimesReported(findings, p) = 2
        /\ TimesReported(findings, q) = 1

-----------------------------------------------------------------------------
(* Properties of detect_timeout_inversion, under SpecInv.                  *)

RECURSIVE Flatten(_)
\* the concatenation of a sequence of sequences
Flatten(ss) == IF ss = <<>> THEN <<>> ELSE Head(ss) \o Flatten(Tail(ss))

\* every calls entry as <<caller, callee>>: services in topology order, then
\* callees in the order of the caller's calls
EdgeList(svcs, ord) ==
    Flatten([i \in DOMAIN ord |->
                [k \in DOMAIN svcs[ord[i]].calls |-> <<ord[i], svcs[ord[i]].calls[k]>>]])

\* the callee is declared and the caller's timeout is strictly the smaller
IsInversion(svcs, e) ==
    /\ e[2] \in DOMAIN svcs
    /\ svcs[e[1]].timeout_ms < svcs[e[2]].timeout_ms

PathsOf(found) == [i \in DOMAIN found |-> found[i].path]

\* C2: detect_timeout_inversion returns, in the order of the edges (services
\* in topology order, callees in calls order), one finding with rule
\* timeout-inversion, severity warning and path <<caller, callee>> for exactly
\* the edges whose callee is declared and whose caller timeout is strictly
\* less than the callee timeout; equal or greater caller timeouts give none.
C2_TimeoutInversion ==
    pc = "done" =>
        /\ PathsOf(findings)
             = SelectSeq(EdgeList(services, order), LAMBDA e : IsInversion(services, e))
        /\ \A i \in DOMAIN findings :
            LET f == findings[i]
            IN /\ f.rule = "timeout-inversion"
               /\ f.severity = "warning"
               /\ f.message.names = f.path
               /\ f.message.nums
                    = <<services[f.path[1]].timeout_ms, services[f.path[2]].timeout_ms>>
               /\ f.message.nums[1] < f.message.nums[2]

\* one caller with two inverted edges to different callees, reported in calls
\* order, and an edge between equal timeouts that is not reported
C2_Witness ==
    /\ pc = "done"
    /\ \E i \in DOMAIN findings :
        /\ i + 1 \in DOMAIN findings
        /\ findings[i].path[1] = findings[i + 1].path[1]
        /\ findings[i].path[2] # findings[i + 1].path[2]
    /\ \E n \in DOMAIN services : \E k \in DOMAIN services[n].calls :
        LET callee == services[n].calls[k]
        IN /\ callee \in DOMAIN services
           /\ callee # n
           /\ services[callee].timeout_ms = services[n].timeout_ms

-----------------------------------------------------------------------------
(* Properties of detect_circuit_breaker_gaps, under SpecGap.               *)

\* the services, in topology order, that list at least one call and have no
\* circuit breaker
Unprotected(svcs, ord) ==
    SelectSeq(ord, LAMBDA n : Len(svcs[n].calls) > 0 /\ svcs[n].has_circuit_breaker = FALSE)

\* C3: detect_circuit_breaker_gaps returns exactly one finding (rule
\* circuit-breaker-gap, severity warning, path <<service>>) for every service
\* whose calls list is non-empty and that has no circuit breaker, however many
\* callees it has, and none for a service with a breaker or with no calls.
C3_CircuitBreakerGaps ==
    pc = "done" =>
        /\ PathsOf(findings)
             = [i \in DOMAIN Unprotected(services, order) |->
                    <<Unprotected(services, order)[i]>>]
        /\ \A n \in DOMAIN services :
            TimesReported(findings, <<n>>)
              = IF Len(services[n].calls) > 0 /\ ~services[n].has_circuit_breaker
                THEN 1 ELSE 0
        /\ \A i \in DOMAIN findings :
            /\ findings[i].rule = "circuit-breaker-gap"
            /\ findings[i].severity = "warning"

\* a service without a breaker that lists two callees is reported once, and a
\* service with a breaker that has calls is not reported
C3_Witness ==
    /\ pc = "done"
    /\ \E n \in DOMAIN services :
        /\ Len(services[n].calls) >= 2
        /\ ~services[n].has_circuit_breaker
        /\ TimesReported(findings, <<n>>) = 1
    /\ \E n \in DOMAIN services :
        /\ services[n].calls # <<>>
        /\ services[n].has_circuit_breaker
        /\ TimesReported(findings, <<n>>) = 0

-----------------------------------------------------------------------------
(* Properties of analyze and of main, under Spec.                          *)

WithRule(found, rule) == SelectSeq(found, LAMBDA f : f.rule = rule)

WithoutRule(found, rule) == SelectSeq(found, LAMBDA f : f.rule # rule)

\* position of a rule in the order analyze runs the detectors
RuleRank(rule) ==
    CASE rule = "retry-amplification" -> 1
      [] rule = "timeout-inversion" -> 2
      [] rule = "circuit-breaker-gap" -> 3

Analyzed == pc = "report" \/ (pc = "exited" /\ exit_code # 2)

\* C4: analyze returns the findings of detect_retry_amplification(threshold),
\* then those of detect_timeout_inversion, then those of
\* detect_circuit_breaker_gaps, each in the order its detector produced them;
\* the timeout-inversion and circuit-breaker-gap findings are the same for
\* every threshold.
C4_AnalyzeOrder ==
    Analyzed =>
        /\ detectors_run = AnalyzeCalls
        /\ \A i, j \in DOMAIN findings :
            i < j => RuleRank(findings[i].rule) <= RuleRank(findings[j].rule)
        /\ WithRule(findings, "retry-amplification")
             = detect_retry_amplification(services, order, threshold)
        /\ WithRule(findings, "timeout-inversion") = detect_timeout_inversion(services, order)
        /\ WithRule(findings, "circuit-breaker-gap")
             = detect_circuit_breaker_gaps(services, order)
        /\ \A thr \in CliThresholds \cup Thresholds :
            WithoutRule(analyze(services, order, thr), "retry-amplification")
              = WithoutRule(findings, "retry-amplification")

\* all three detectors contribute, and another threshold changes the
\* retry-amplification part
C4_Witness ==
    /\ Analyzed
    /\ \A rule \in {"retry-amplification", "timeout-inversion", "circuit-breaker-gap"} :
        WithRule(findings, rule) # <<>>
    /\ \E thr \in CliThresholds : analyze(services, order, thr) # findings

\* the topology without its calls entries that name no service
WithoutDangling(svcs) ==
    [n \in DOMAIN svcs |->
        [svcs[n] EXCEPT !.calls = SelectSeq(@, LAMBDA callee : callee \in DOMAIN svcs)]]

HasDangling(svcs) ==
    \E n \in DOMAIN svcs : \E k \in DOMAIN svcs[n].calls : svcs[n].calls[k] \notin DOMAIN svcs

\* C6 as stated: for each of the three detectors the findings are those of
\* the topology with the dangling calls entries removed.
C6_Original ==
    Analyzed =>
        /\ WithRule(findings, "retry-amplification")
             = detect_retry_amplification(WithoutDangling(services), order, threshold)
        /\ WithRule(findings, "timeout-inversion")
             = detect_timeout_inversion(WithoutDangling(services), order)
        /\ WithRule(findings, "circuit-breaker-gap")
             = detect_circuit_breaker_gaps(WithoutDangling(services), order)

\* C6, amended: a dangling calls entry is skipped by detect_retry_amplification
\* and detect_timeout_inversion, whose findings are those of the topology with
\* the dangling entries removed; detect_circuit_breaker_gaps does not look the
\* callees up: a dangling entry counts as a call there (a service without a
\* breaker is reported even if all its calls are dangling) and is listed in
\* the finding's message.
C6_DanglingSkippedByTwo ==
    Analyzed =>
        /\ WithRule(findings, "retry-amplification")
             = detect_retry_amplification(WithoutDangling(services), order, threshold)
        /\ WithRule(findings, "timeout-inversion")
             = detect_timeout_inversion(WithoutDangling(services), order)
        /\ \A i \in DOMAIN findings :
            findings[i].rule # "circuit-breaker-gap" =>
                \A k \in DOMAIN findings[i].path : findings[i].path[k] \in DOMAIN services
        /\ \A n \in DOMAIN services :
            services[n].calls # <<>> /\ ~services[n].has_circuit_breaker =>
                \E i \in DOMAIN findings :
                    /\ findings[i].rule = "circuit-breaker-gap"
                    /\ findings[i].path = <<n>>
                    /\ findings[i].message.names = <<n>> \o services[n].calls

\* a topology with a dangling entry on a service that is also on a reported
\* retry-amplification path and on a reported timeout inversion, and a
\* circuit-breaker-gap finding for a service all of whose calls are dangling
C6_Witness ==
    /\ Analyzed
    /\ HasDangling(services)
    /\ WithRule(findings, "retry-amplification") # <<>>
    /\ WithRule(findings, "timeout-inversion") # <<>>
    /\ \E i \in DOMAIN findings :
        /\ findings[i].rule = "circuit-breaker-gap"
        /\ WithoutDangling(services)[findings[i].path[1]].calls = <<>>

\* the document holds a timeout that parse_duration rejects
BadDocument == \E n \in DOMAIN config : config[n].timeout = <<StrArg(<<"s">>)>>

Severities(found) == {found[i].severity : i \in DOMAIN found}

\* C7: main exits 2, with no detector run, if loading the topology fails;
\* otherwise it exits 1 if some finding has severity error or if --strict is
\* set and there is a finding, and 0 in every other case.
C7_ExitStatus ==
    pc = "exited" =>
        /\ BadDocument => exit_code = 2 /\ detectors_run = <<>> /\ findings = <<>>
        /\ ~BadDocument =>
            /\ detectors_run # <<>>
            /\ exit_code \in {0, 1}
            /\ exit_code = 1 <=>
                \/ "error" \in Severities(findings)
                \/ strict /\ Len(findings) > 0
            /\ ~strict /\ Severities(findings) \subseteq {"warning"} => exit_code = 0

\* a strict run whose findings are all warnings exits 1
C7_Witness ==
    /\ pc = "exited"
    /\ strict
    /\ Severities(findings) = {"warning"}
    /\ exit_code = 1

-----------------------------------------------------------------------------
(* Properties of the walk of detect_retry_amplification, under SpecWalk.   *)

\* no active call of walk is for a path that repeats a service
NoRevisit == \A i \in DOMAIN stack : IsSimple(stack[i].path)

\* C5: on every topology, with self-calls and cycles, the walk never recurses
\* into a callee already on the current path, and detect_retry_amplification
\* terminates and returns its findings.
C5_Terminates == []NoRevisit /\ <>(pc = "done")

\* the detector has returned on a topology where a service calls itself and
\* two services call each other
C5_Witness ==
    /\ pc = "done"
    /\ \E n \in DOMAIN services : n \in Range(services[n].calls)
    /\ \E n, m \in DOMAIN services :
        /\ n # m
        /\ m \in Range(services[n].calls)
        /\ n \in Range(services[m].calls)

\* C10 as stated: the number of nested walk calls, and the length of the
\* current path, is at most the number of services.
C10_Original ==
    /\ Len(stack) <= Cardinality(DOMAIN services)
    /\ \A i \in DOMAIN stack : Len(stack[i].path) <= Cardinality(DOMAIN services)

\* C10, amended: the number of nested walk calls, which is the length of the
\* current path, is at most the number of services plus one; the calls for a
\* declared service are at most the number of services, and the one call
\* beyond that is for a dangling callee, which returns at once.
C10_DepthBound ==
    /\ Len(stack) <= Cardinality(DOMAIN services) + 1
    /\ \A i \in DOMAIN stack : Len(stack[i].path) = i
    /\ Cardinality({i \in DOMAIN stack : stack[i].name \in DOMAIN services})
         <= Cardinality(DOMAIN services)
    /\ \A i \in DOMAIN stack :
        stack[i].name \notin DOMAIN services => i = Len(stack) /\ stack[i].at = "enter"

\* walk is active once for every service and once more for a dangling callee
C10_Witness ==
    /\ Len(stack) = Cardinality(DOMAIN services) + 1
    /\ Top.name = Ghost

====
